---- MODULE Spec2Model ----
(***************************************************************************)
(* cppcoreguidelines-macro-usage: the preprocessor callback MacroDefined   *)
(* of MacroUsageCallbacks and the two reporting methods of MacroUsageCheck *)
(* (clang-tools-extra/clang-tidy/cppcoreguidelines/MacroUsageCheck.cpp).   *)
(*                                                                         *)
(* A behaviour is a sequence of clang-tidy runs over one translation unit. *)
(* The translation unit is the list Defs of macro definitions the          *)
(* preprocessor delivers, in source order.  Each run registers a fresh     *)
(* MacroUsageCallbacks object built from the options of the check and      *)
(* then calls MacroDefined once per definition.                            *)
(***************************************************************************)
EXTENDS Integers, Sequences, FiniteSets, TLC

VARIABLES
    Options,     \* MacroUsageCheck: AllowedRegexp, CheckCapsOnly, IgnoreCommandLineMacros
    OutOfRange,  \* what <cctype> of this build answers for a char outside 0..UCHAR_MAX
    Defs,        \* the macro definitions of the translation unit, in source order
    run,         \* number of the current run
    Callbacks,   \* the registered MacroUsageCallbacks object, or NoCallbacks
    handled,     \* handled[r]: how many definitions run r has passed to MacroDefined
    Diags,       \* Diags[r]: the diagnostics run r has emitted, in emission order
    Calls        \* Calls[r]: the calls MacroDefined made into the check in run r

vars == <<Options, OutOfRange, Defs, run, Callbacks, handled, Diags, Calls>>

----------------------------------------------------------------------------
(* Bounds of the model. *)

MaxTokens == 2      \* longest macro body, in tokens
MaxDefs == 3        \* longest translation unit of SpecRuns, in definitions
NumRuns == 2        \* runs over the same translation unit

----------------------------------------------------------------------------
(* Characters and names.  A char is a one-character string; the bytes of a *)
(* UTF-8 encoded identifier character are written "\xC3", "\x89": as a     *)
(* (signed) char they are negative.                                        *)

UpperChars == {"A", "B", "C", "D", "E", "F", "G", "H", "I", "J", "K", "L", "M",
               "N", "O", "P", "Q", "R", "S", "T", "U", "V", "W", "X", "Y", "Z"}

DigitChars == {"0", "1", "2", "3", "4", "5", "6", "7", "8", "9"}

HighChars == {"\\xC3", "\\x89"}

GccCfiAsm == <<"_", "_", "G", "C", "C", "_", "H", "A", "V", "E", "_",
               "D", "W", "A", "R", "F", "2", "_", "C", "F", "I", "_", "A", "S", "M">>

Names == { GccCfiAsm,
           <<"D", "E", "B", "U", "G", "_", "X">>,
           <<"M", "A", "X", "1">>,
           <<"m", "y", "M", "a", "c", "r", "o">>,
           <<"\\xC3", "\\x89">> }

(* AllowedRegexp values: a literal with optional ^ and $ anchors.          *)
Regexps == { [Bol |-> TRUE,  Lit |-> <<"D", "E", "B", "U", "G", "_">>, Eol |-> FALSE],
             [Bol |-> FALSE, Lit |-> <<"M">>,                          Eol |-> FALSE],
             [Bol |-> TRUE,  Lit |-> <<>>,                             Eol |-> TRUE] }

(* llvm::Regex::match searches: the pattern may match anywhere in the name *)
(* unless it is anchored.                                                  *)
RegexMatch(RegExp, Name) ==
    \E i \in 1..(Len(Name) + 1) :
        /\ RegExp.Bol => i = 1
        /\ i + Len(RegExp.Lit) - 1 <= Len(Name)
        /\ \A k \in 1..Len(RegExp.Lit) : Name[i + k - 1] = RegExp.Lit[k]
        /\ RegExp.Eol => i + Len(RegExp.Lit) - 1 = Len(Name)

----------------------------------------------------------------------------
(* Macro definitions as the preprocessor hands them over.                  *)

BuiltinFile == "<built-in>"
CommandLineFile == "<command line>"
MainFile == "main.cpp"
Files == {BuiltinFile, CommandLineFile, MainFile}

TokenKinds == {"numeric_constant", "identifier", "hash", "hashhash"}

(* Token::isLiteral *)
isLiteral(T) == T = "numeric_constant"

RECURSIVE TokenSeqs(_)
TokenSeqs(n) ==
    IF n = 0 THEN {<<>>}
    ELSE LET Shorter == TokenSeqs(n - 1)
         IN  Shorter \cup {Append(s, t) : s \in {x \in Shorter : Len(x) = n - 1},
                                          t \in TokenKinds}

(* A variadic macro is function-like at the same time.                     *)
MacroShapes == { [IsFunctionLike |-> FALSE, IsVariadic |-> FALSE],
                 [IsFunctionLike |-> TRUE,  IsVariadic |-> FALSE],
                 [IsFunctionLike |-> TRUE,  IsVariadic |-> TRUE] }

MacroDefs ==
    { [Name |-> n, File |-> f, HeaderGuard |-> g, Tokens |-> t,
       IsFunctionLike |-> s.IsFunctionLike, IsVariadic |-> s.IsVariadic] :
         n \in Names, f \in Files, g \in BOOLEAN,
         t \in TokenSeqs(MaxTokens), s \in MacroShapes }

(* MD->getLocation() of the i-th definition of the translation unit.       *)
getLocation(i) == [File |-> Defs[i].File, Line |-> i]

----------------------------------------------------------------------------
(* isCapsOnly.  std::isupper and std::isdigit take an int holding an       *)
(* unsigned char value; the lambda passes a plain char, so for a byte of   *)
(* HighChars the call is undefined and answers whatever the build does.    *)

isupper(C) == IF C \in HighChars THEN OutOfRange ELSE C \in UpperChars

isdigit(C) == IF C \in HighChars THEN OutOfRange ELSE C \in DigitChars

isCapsOnly(Name) ==
    \A i \in 1..Len(Name) : isupper(Name[i]) \/ isdigit(Name[i]) \/ Name[i] = "_"

----------------------------------------------------------------------------
(* The four message templates.                                             *)

MsgConstant == "macro '%0' used to declare a constant; consider using a 'constexpr' constant"
MsgVariadic == "variadic macro '%0' used; consider using a 'constexpr' variadic template function"
MsgFunctionLike == "function-like macro '%0' used; consider a 'constexpr' template function"
MsgNaming == "macro definition does not define the macro name '%0' using all uppercase characters"

(* diag that puts the new diagnostic in front of the earlier ones.         *)
MutDiagPrepend(Emitted, Loc, Message, MacroName) ==
    <<[Location |-> Loc, Message |-> Message, Name |-> MacroName]>> \o Emitted

(* diag that reports a message for a macro name only once per run.         *)
MutDiagOncePerName(Emitted, Loc, Message, MacroName) ==
    IF \E k \in 1..Len(Emitted) :
          Emitted[k].Message = Message /\ Emitted[k].Name = MacroName
    THEN Emitted
    ELSE Append(Emitted, [Location |-> Loc, Message |-> Message, Name |-> MacroName])

(* diag(Loc, Message) << MacroName: one more diagnostic, after the ones    *)
(* already emitted.                                                        *)
diag(Emitted, Loc, Message, MacroName) ==
    Append(Emitted, [Location |-> Loc, Message |-> Message, Name |-> MacroName])

(* warnMacro that tests isFunctionLike before isVariadic.                  *)
MutFunctionLikeFirst(Info) ==
    IF \A k \in 1..Len(Info.Tokens) : isLiteral(Info.Tokens[k]) THEN MsgConstant
    ELSE IF Info.IsFunctionLike THEN MsgFunctionLike
    ELSE IF Info.IsVariadic THEN MsgVariadic
    ELSE ""

(* warnMacro that tests isVariadic before the literal-only body.           *)
MutVariadicFirst(Info) ==
    IF Info.IsVariadic THEN MsgVariadic
    ELSE IF \A k \in 1..Len(Info.Tokens) : isLiteral(Info.Tokens[k]) THEN MsgConstant
    ELSE IF Info.IsFunctionLike THEN MsgFunctionLike
    ELSE ""

(* warnMacro whose last branch lacks the isFunctionLike test.              *)
MutElseFunctionLike(Info) ==
    IF \A k \in 1..Len(Info.Tokens) : isLiteral(Info.Tokens[k]) THEN MsgConstant
    ELSE IF Info.IsVariadic THEN MsgVariadic
    ELSE MsgFunctionLike

(* MacroUsageCheck::warnMacro: the message chosen, "" for none.            *)
warnMacroMessage(Info) ==
    IF \A k \in 1..Len(Info.Tokens) : isLiteral(Info.Tokens[k]) THEN MsgConstant
    ELSE IF Info.IsVariadic THEN MsgVariadic
    ELSE IF Info.IsFunctionLike THEN MsgFunctionLike
    ELSE ""

warnMacro(Emitted, Info, Loc, MacroName) ==
    LET Message == warnMacroMessage(Info)
    IN  IF Message # "" THEN diag(Emitted, Loc, Message, MacroName) ELSE Emitted

(* MacroUsageCheck::warnNaming *)
warnNaming(Emitted, Loc, MacroName) == diag(Emitted, Loc, MsgNaming, MacroName)

----------------------------------------------------------------------------
(* MacroUsageCallbacks::MacroDefined.                                      *)

(* Early returns without the test of the macro name.                      *)
MutReturnsNoExemptName(CB, Info, Loc) ==
    \/ Loc.File = BuiltinFile
    \/ Info.HeaderGuard
    \/ Len(Info.Tokens) = 0
    \/ \E k \in 1..Len(Info.Tokens) : Info.Tokens[k] \in {"hash", "hashhash"}
    \/ CB.IgnoreCommandLineMacros /\ Loc.File = CommandLineFile

(* Early returns that skip command-line definitions whatever the option.   *)
MutReturnsAnyCommandLine(CB, Info, Loc) ==
    \/ Loc.File = BuiltinFile
    \/ Info.HeaderGuard
    \/ Len(Info.Tokens) = 0
    \/ \E k \in 1..Len(Info.Tokens) : Info.Tokens[k] \in {"hash", "hashhash"}
    \/ Loc.File = CommandLineFile
    \/ Info.Name = GccCfiAsm

(* The early returns of the callback.                                      *)
Returns(CB, Info, Loc) ==
    \/ Loc.File = BuiltinFile
    \/ Info.HeaderGuard
    \/ Len(Info.Tokens) = 0
    \/ \E k \in 1..Len(Info.Tokens) : Info.Tokens[k] \in {"hash", "hashhash"}
    \/ CB.IgnoreCommandLineMacros /\ Loc.File = CommandLineFile
    \/ Info.Name = GccCfiAsm

(* The call of warnMacro without the test of AllowedRegexp.                *)
MutCallsWarnMacroNoRegexp(CB, Info, Loc) ==
    ~Returns(CB, Info, Loc) /\ ~CB.CheckCapsOnly

CallsWarnMacro(CB, Info, Loc) ==
    ~Returns(CB, Info, Loc) /\ ~CB.CheckCapsOnly /\ ~RegexMatch(CB.RegExp, Info.Name)

(* The call of warnNaming without the test of CheckCapsOnly.               *)
MutCallsWarnNamingAlways(CB, Info, Loc) ==
    ~Returns(CB, Info, Loc) /\ ~isCapsOnly(Info.Name)

CallsWarnNaming(CB, Info, Loc) ==
    ~Returns(CB, Info, Loc) /\ CB.CheckCapsOnly /\ ~isCapsOnly(Info.Name)

NoCallbacks == [Registered |-> FALSE]

Configs == [AllowedRegexp : Regexps, CheckCapsOnly : BOOLEAN,
            IgnoreCommandLineMacros : BOOLEAN]

Runs == 1..NumRuns

(* MacroUsageCheck::registerPPCallbacks: the run starts and the callback   *)
(* object is built from the options of the check.                          *)
registerPPCallbacks ==
    /\ run < NumRuns
    /\ ~Callbacks.Registered
    /\ run' = run + 1
    /\ Callbacks' = [Registered |-> TRUE,
                     RegExp |-> Options.AllowedRegexp,
                     CheckCapsOnly |-> Options.CheckCapsOnly,
                     IgnoreCommandLineMacros |-> Options.IgnoreCommandLineMacros]
    /\ UNCHANGED <<Options, OutOfRange, Defs, handled, Diags, Calls>>

(* The preprocessor reports the next definition of the translation unit.   *)
MacroDefined ==
    /\ Callbacks.Registered
    /\ handled[run] < Len(Defs)
    /\ LET i == handled[run] + 1
           Info == Defs[i]
           Loc == getLocation(i)
           D1 == IF CallsWarnMacro(Callbacks, Info, Loc)
                 THEN warnMacro(Diags[run], Info, Loc, Info.Name)
                 ELSE Diags[run]
           D2 == IF CallsWarnNaming(Callbacks, Info, Loc)
                 THEN warnNaming(D1, Loc, Info.Name)
                 ELSE D1
           C1 == IF CallsWarnMacro(Callbacks, Info, Loc)
                 THEN Append(Calls[run], [Fn |-> "warnMacro", Line |-> i])
                 ELSE Calls[run]
           C2 == IF CallsWarnNaming(Callbacks, Info, Loc)
                 THEN Append(C1, [Fn |-> "warnNaming", Line |-> i])
                 ELSE C1
       IN  /\ Diags' = [Diags EXCEPT ![run] = D2]
           /\ Calls' = [Calls EXCEPT ![run] = C2]
           /\ handled' = [handled EXCEPT ![run] = i]
    /\ UNCHANGED <<Options, OutOfRange, Defs, run, Callbacks>>

(* The preprocessor reaches the end of the translation unit and is torn    *)
(* down with the callbacks it owns.                                        *)
EndOfMainFile ==
    /\ Callbacks.Registered
    /\ handled[run] = Len(Defs)
    /\ Callbacks' = NoCallbacks
    /\ UNCHANGED <<Options, OutOfRange, Defs, run, handled, Diags, Calls>>

Next == registerPPCallbacks \/ MacroDefined \/ EndOfMainFile

InitRun ==
    /\ Options \in Configs
    /\ OutOfRange \in BOOLEAN
    /\ run = 0
    /\ Callbacks = NoCallbacks
    /\ handled = [r \in Runs |-> 0]
    /\ Diags = [r \in Runs |-> <<>>]
    /\ Calls = [r \in Runs |-> <<>>]

(* Translation units with a single macro definition, of every kind.        *)
Init == InitRun /\ Defs \in {<<d>> : d \in MacroDefs}

Spec == Init /\ [][Next]_vars

(* A command-line definition followed by the same definition written in    *)
(* the main file.                                                          *)
InitOrigin ==
    /\ InitRun
    /\ Defs \in {<<d, [d EXCEPT !.File = MainFile]>> :
                    d \in {m \in MacroDefs : m.File = CommandLineFile}}

SpecOrigin == InitOrigin /\ [][Next]_vars

(* Translation units of up to MaxDefs definitions drawn from one definition *)
(* per outcome of the callback; two of them define the same name.          *)
SampleDefs ==
    { [Name |-> <<"M", "A", "X", "1">>, File |-> MainFile, HeaderGuard |-> FALSE,
       Tokens |-> <<"numeric_constant">>, IsFunctionLike |-> FALSE, IsVariadic |-> FALSE],
      [Name |-> <<"m", "y", "M", "a", "c", "r", "o">>, File |-> MainFile, HeaderGuard |-> FALSE,
       Tokens |-> <<"identifier">>, IsFunctionLike |-> TRUE, IsVariadic |-> TRUE],
      [Name |-> <<"m", "y", "M", "a", "c", "r", "o">>, File |-> MainFile, HeaderGuard |-> FALSE,
       Tokens |-> <<"identifier">>, IsFunctionLike |-> TRUE, IsVariadic |-> FALSE],
      [Name |-> <<"D", "E", "B", "U", "G", "_", "X">>, File |-> CommandLineFile, HeaderGuard |-> FALSE,
       Tokens |-> <<"numeric_constant">>, IsFunctionLike |-> FALSE, IsVariadic |-> FALSE],
      [Name |-> <<"\\xC3", "\\x89">>, File |-> MainFile, HeaderGuard |-> FALSE,
       Tokens |-> <<"identifier">>, IsFunctionLike |-> FALSE, IsVariadic |-> FALSE],
      [Name |-> <<"M", "A", "X", "1">>, File |-> BuiltinFile, HeaderGuard |-> FALSE,
       Tokens |-> <<"hash">>, IsFunctionLike |-> TRUE, IsVariadic |-> FALSE] }

RECURSIVE DefLists(_)
DefLists(n) ==
    IF n = 0 THEN {<<>>}
    ELSE LET Shorter == DefLists(n - 1)
         IN  Shorter \cup {Append(s, d) : s \in {x \in Shorter : Len(x) = n - 1},
                                          d \in SampleDefs}

InitRuns == InitRun /\ Defs \in DefLists(MaxDefs)

SpecRuns == InitRuns /\ [][Next]_vars

----------------------------------------------------------------------------
(* Vocabulary of the properties.                                           *)

(* The diagnostics of run r located at the i-th definition.                *)
DiagsAt(r, i) == SelectSeq(Diags[r], LAMBDA d : d.Location.Line = i)

(* The same, without the location.                                         *)
ReportsAt(r, i) ==
    [k \in 1..Len(DiagsAt(r, i)) |->
        [Message |-> DiagsAt(r, i)[k].Message, Name |-> DiagsAt(r, i)[k].Name]]

UsageMessages == {MsgConstant, MsgVariadic, MsgFunctionLike}

UsageAt(r, i) == SelectSeq(DiagsAt(r, i), LAMBDA d : d.Message \in UsageMessages)

NamingAt(r, i) == SelectSeq(DiagsAt(r, i), LAMBDA d : d.Message = MsgNaming)

HasHash(d) == \E k \in 1..Len(d.Tokens) : d.Tokens[k] = "hash" \/ d.Tokens[k] = "hashhash"

AllLiteral(d) == \A k \in 1..Len(d.Tokens) : d.Tokens[k] = "numeric_constant"

(* The definition survives the six rejection rules of the observer.        *)
Survives(d) ==
    /\ d.File # BuiltinFile
    /\ ~d.HeaderGuard
    /\ d.Tokens # <<>>
    /\ ~HasHash(d)
    /\ ~(Options.IgnoreCommandLineMacros /\ d.File = CommandLineFile)
    /\ d.Name # GccCfiAsm

Allowed(d) == RegexMatch(Options.AllowedRegexp, d.Name)

OneReport(r, i, msg) == ReportsAt(r, i) = <<[Message |-> msg, Name |-> Defs[i].Name]>>

----------------------------------------------------------------------------
(* C1: whatever the options are, a definition that is written in the       *)
(* builtin file, or is a header guard, or has an empty body, or has a '#'  *)
(* or '##' token anywhere in its body, or is named                         *)
(* __GCC_HAVE_DWARF2_CFI_ASM, gets no diagnostic at all.                   *)
C1_ExemptNoDiagnostic ==
    \A r \in Runs : \A i \in 1..handled[r] :
        ( \/ Defs[i].File = BuiltinFile
          \/ Defs[i].HeaderGuard
          \/ Defs[i].Tokens = <<>>
          \/ HasHash(Defs[i])
          \/ Defs[i].Name = GccCfiAsm )
        => DiagsAt(r, i) = <<>>

(* A handled definition named __GCC_HAVE_DWARF2_CFI_ASM that no other rule *)
(* rejects and that the usage check would report.                          *)
C1_Witness ==
    \E r \in Runs : \E i \in 1..handled[r] :
        /\ Defs[i].Name = GccCfiAsm
        /\ Defs[i].File = MainFile /\ ~Defs[i].HeaderGuard
        /\ Defs[i].Tokens = <<"numeric_constant", "numeric_constant">>
        /\ ~Options.CheckCapsOnly /\ ~Allowed(Defs[i])

(* C2 as stated: every surviving variadic macro whose name is not allowed, *)
(* with CheckCapsOnly off, gets exactly one diagnostic, the variadic one.  *)
C2_VariadicAlwaysVariadic ==
    \A r \in Runs : \A i \in 1..handled[r] :
        ( /\ Survives(Defs[i]) /\ Defs[i].IsVariadic
          /\ ~Options.CheckCapsOnly /\ ~Allowed(Defs[i]) )
        => OneReport(r, i, MsgVariadic)

(* C2 amended: every surviving variadic macro with at least one            *)
(* non-literal body token, whose name is not allowed, with CheckCapsOnly   *)
(* off, gets exactly one diagnostic, the variadic one; and no variadic     *)
(* macro ever gets the function-like diagnostic.                           *)
C2_VariadicNonLiteral ==
    \A r \in Runs : \A i \in 1..handled[r] :
        /\ ( /\ Survives(Defs[i]) /\ Defs[i].IsVariadic /\ ~AllLiteral(Defs[i])
             /\ ~Options.CheckCapsOnly /\ ~Allowed(Defs[i]) )
           => OneReport(r, i, MsgVariadic)
        /\ Defs[i].IsVariadic
           => \A k \in 1..Len(DiagsAt(r, i)) : DiagsAt(r, i)[k].Message # MsgFunctionLike

C2_Witness ==
    \E r \in Runs : \E i \in 1..handled[r] :
        /\ Survives(Defs[i]) /\ Defs[i].IsVariadic /\ Defs[i].IsFunctionLike
        /\ Defs[i].Tokens = <<"numeric_constant", "identifier">>
        /\ ~Options.CheckCapsOnly /\ ~Allowed(Defs[i])
        /\ OneReport(r, i, MsgVariadic)

(* C3: every surviving macro whose body has only literal tokens, whose     *)
(* name is not allowed, with CheckCapsOnly off, gets exactly one           *)
(* diagnostic, the constant one, whatever its function-like and variadic   *)
(* flags are.                                                              *)
C3_LiteralBodyConstant ==
    \A r \in Runs : \A i \in 1..handled[r] :
        ( /\ Survives(Defs[i]) /\ AllLiteral(Defs[i])
          /\ ~Options.CheckCapsOnly /\ ~Allowed(Defs[i]) )
        => OneReport(r, i, MsgConstant)

C3_Witness ==
    \E r \in Runs : \E i \in 1..handled[r] :
        /\ Survives(Defs[i]) /\ AllLiteral(Defs[i]) /\ Defs[i].IsVariadic
        /\ ~Options.CheckCapsOnly /\ ~Allowed(Defs[i])
        /\ OneReport(r, i, MsgConstant)

(* C4: a surviving macro that is not variadic and has a non-literal body   *)
(* token, whose name is not allowed, with CheckCapsOnly off, gets exactly  *)
(* the function-like diagnostic if it is function-like and no diagnostic   *)
(* if it is object-like.                                                   *)
C4_FunctionLikeOrNothing ==
    \A r \in Runs : \A i \in 1..handled[r] :
        ( /\ Survives(Defs[i]) /\ ~Defs[i].IsVariadic /\ ~AllLiteral(Defs[i])
          /\ ~Options.CheckCapsOnly /\ ~Allowed(Defs[i]) )
        => IF Defs[i].IsFunctionLike
           THEN OneReport(r, i, MsgFunctionLike)
           ELSE DiagsAt(r, i) = <<>>

C4_Witness ==
    /\ \E r \in Runs : \E i \in 1..handled[r] :
        /\ Survives(Defs[i]) /\ ~Defs[i].IsVariadic /\ ~AllLiteral(Defs[i])
        /\ ~Options.CheckCapsOnly /\ ~Allowed(Defs[i])
        /\ Defs[i].IsFunctionLike /\ OneReport(r, i, MsgFunctionLike)

(* C5: with CheckCapsOnly off, a macro whose name matches AllowedRegexp    *)
(* gets no usage diagnostic and warnMacro is not called for it.            *)
C5_AllowedNameNoUsage ==
    \A r \in Runs : \A i \in 1..handled[r] :
        (~Options.CheckCapsOnly /\ Allowed(Defs[i]))
        => /\ UsageAt(r, i) = <<>>
           /\ \A k \in 1..Len(Calls[r]) :
                ~(Calls[r][k].Fn = "warnMacro" /\ Calls[r][k].Line = i)

(* A surviving function-like macro with an allowed name has been handled.  *)
C5_Witness ==
    \E r \in Runs : \E i \in 1..handled[r] :
        /\ ~Options.CheckCapsOnly /\ Allowed(Defs[i])
        /\ Survives(Defs[i]) /\ Defs[i].IsFunctionLike
        /\ Defs[i].Tokens = <<"identifier">>

C7_AtMostOneDiagnostic ==
    \A r \in Runs : \A i \in 1..handled[r] :
        /\ Len(UsageAt(r, i)) <= 1
        /\ Len(NamingAt(r, i)) <= 1
        /\ Len(DiagsAt(r, i)) <= 1
        /\ UsageAt(r, i) # <<>> => ~Options.CheckCapsOnly
        /\ NamingAt(r, i) # <<>> => Options.CheckCapsOnly

(* Both kinds of diagnostic have been emitted for definitions that a       *)
(* careless callback would report twice.                                   *)
C7_Witness ==
    \E r \in Runs : \E i \in 1..handled[r] :
        /\ Defs[i].Name = <<"m", "y", "M", "a", "c", "r", "o">>
        /\ Defs[i].IsFunctionLike
        /\ ~Allowed(Defs[i])
        /\ Len(DiagsAt(r, i)) = 1

(* C8: a command-line definition gets no diagnostic when                   *)
(* IgnoreCommandLineMacros is on; when it is off it gets the diagnostics   *)
(* of the same definition written in an ordinary file.                     *)
C8_CommandLineOrigin ==
    \A r \in Runs : \A i \in 1..handled[r] :
        Defs[i].File = CommandLineFile
        => /\ Options.IgnoreCommandLineMacros => DiagsAt(r, i) = <<>>
           /\ ~Options.IgnoreCommandLineMacros
              => \A j \in 1..handled[r] :
                    Defs[j] = [Defs[i] EXCEPT !.File = MainFile]
                    => ReportsAt(r, i) = ReportsAt(r, j)

(* With the option off, a command-line definition and its ordinary-file    *)
(* twin have both been reported.                                           *)
C8_Witness ==
    \E r \in Runs : \E i, j \in 1..handled[r] :
        /\ Defs[i].File = CommandLineFile
        /\ Defs[j] = [Defs[i] EXCEPT !.File = MainFile]
        /\ ~Options.IgnoreCommandLineMacros
        /\ ReportsAt(r, i) # <<>>
        /\ ReportsAt(r, i) = ReportsAt(r, j)

C10_Stateless ==
    /\ Callbacks.Registered
       => /\ Callbacks.RegExp = Options.AllowedRegexp
          /\ Callbacks.CheckCapsOnly = Options.CheckCapsOnly
          /\ Callbacks.IgnoreCommandLineMacros = Options.IgnoreCommandLineMacros
    /\ \A r \in Runs : \A i, j \in 1..handled[r] :
        Defs[i] = Defs[j] => ReportsAt(r, i) = ReportsAt(r, j)

(* The same macro defined first and, after another definition, again, and  *)
(* diagnosed both times.                                                   *)
C10_Witness ==
    \E r \in Runs :
        /\ handled[r] >= 3
        /\ Defs[1] = Defs[3] /\ Defs[2] # Defs[1]
        /\ Defs[2].Name = Defs[1].Name
        /\ ReportsAt(r, 1) # <<>> /\ ReportsAt(r, 2) # <<>>
        /\ ReportsAt(r, 3) = ReportsAt(r, 1)

====
